---- MODULE Spec2Model ----
(***************************************************************************)
(* rossoflix-api: the /stream handler (download_and_stream), its file      *)
(* locator (find_downloaded_file), its range parser (parse_range) and the  *)
(* external download agent (aria2c) it spawns, as a state machine.         *)
(*                                                                         *)
(* Strings are sequences of one-character strings; the literal "bytes="    *)
(* of a Range header is one token.  A file's content is its byte offsets   *)
(* 0 .. size-1, so a response body is the sequence of offsets emitted.     *)
(* u64 arithmetic is kept modulo U64_MODULUS (a scaled-down 2^64).         *)
(***************************************************************************)
EXTENDS Integers, Sequences, FiniteSets, TLC

\* ---------------------------------------------------------------- bounds
MaxFileSize == 3
MaxEntries == 3
MaxRangeLen == 4
\* capacity of one ReaderStream chunk (tokio-util's default, scaled down)
ReadCap == 2

\* -------------------------------------------------------- value universes
Requests == {"r1", "r2"}
Filenames == {<<>>, <<"a">>, <<"b">>}
RealNames == Filenames \ {<<>>}
SubDir == <<"sub">>
Magnets == {<<>>, <<"h">>, <<"magnet:?", "xt=urn:btih:", "h">>}
RangeChars == {"0", "1", "2", "-", "x"}
RangeStrs == UNION {[1..n -> RangeChars] : n \in 0..MaxRangeLen}

None == [tag |-> "None"]
Some(v) == [tag |-> "Some", val |-> v]

\* u64: meta.len() and every value parse_range computes
U64_MODULUS == 2^20

\* `chunk_size as usize`: the value modulo the width of usize, which on a
\* 64-bit target is the width of u64
USIZE_MODULUS == U64_MODULUS
as_usize(n) == n % USIZE_MODULUS

Min(a, b) == IF a < b THEN a ELSE b

\* ------------------------------------------------------------- strings
Digits == <<"0", "1", "2", "3", "4", "5", "6", "7", "8", "9">>
IsDigit(c) == \E d \in 1..10 : Digits[d] = c
DigitVal(c) == (CHOOSE d \in 1..10 : Digits[d] = c) - 1

\* u64::to_string, as format! and to_string() print a number
RECURSIVE to_string(_)
to_string(n) ==
    IF n < 10 THEN <<Digits[n + 1]>>
    ELSE to_string(n \div 10) \o <<Digits[(n % 10) + 1]>>

\* the digits of s as a number, None once the value leaves u64
RECURSIVE parse_digits(_, _)
parse_digits(s, acc) ==
    IF s = <<>> THEN Some(acc)
    ELSE IF ~IsDigit(Head(s)) THEN None
    ELSE LET v == acc * 10 + DigitVal(Head(s))
         IN  IF v >= U64_MODULUS THEN None ELSE parse_digits(Tail(s), v)

\* str::parse::<u64>: one optional leading '+', then at least one digit
parse_u64(s) ==
    LET digits == IF s # <<>> /\ Head(s) = "+" THEN Tail(s) ELSE s
    IN  IF digits = <<>> THEN None ELSE parse_digits(digits, 0)

\* str::split('-'): the pieces between dashes, at least one piece
RECURSIVE split_dash(_, _)
split_dash(s, piece) ==
    IF s = <<>> THEN <<piece>>
    ELSE IF Head(s) = "-" THEN <<piece>> \o split_dash(Tail(s), <<>>)
    ELSE split_dash(Tail(s), Append(piece, Head(s)))

\* u64 subtraction and addition: a panic when the build checks overflow
\* (debug profile), wrap-around otherwise (release profile)
u64_sub(a, b, checks) ==
    IF a >= b THEN Some(a - b)
    ELSE IF checks THEN [tag |-> "Panic"]
    ELSE Some((a - b + U64_MODULUS) % U64_MODULUS)

u64_add(a, b, checks) ==
    IF a + b < U64_MODULUS THEN Some(a + b)
    ELSE IF checks THEN [tag |-> "Panic"]
    ELSE Some((a + b) % U64_MODULUS)

\* ---------------------------------------------------------- parse_range
\* Some(<<start, end>>), None, or a panic of `file_size - 1`
parse_range(range_str, file_size, checks) ==
    LET parts == split_dash(range_str, <<>>)
        start == parse_u64(parts[1])
    IN  IF start.tag = "None" THEN None
        ELSE LET open_ended == Len(parts) < 2 \/ parts[2] = <<>>
                 end == IF open_ended THEN u64_sub(file_size, 1, checks)
                        ELSE parse_u64(parts[2])
             IN  IF end.tag # "Some" THEN end
                 ELSE IF start.val > end.val \/ end.val >= file_size THEN None
                 ELSE Some(<<start.val, end.val>>)

\* ------------------------------------------------------------ filesystem
\* The storage root "./downloads" is the directory Root; a path is the
\* sequence of names below it.  A directory has a state and its entries in
\* the order read_dir lists them.
Root == <<>>
SubPath == <<SubDir>>
DirPaths == {Root, SubPath}
FileEntry(name, size) == [name |-> name, kind |-> "file", size |-> size]
DirEntry(name) == [name |-> name, kind |-> "dir", size |-> 0]
NoDir == [state |-> "missing", entries |-> <<>>]
Dir(entries) == [state |-> "ok", entries |-> entries]
\* an entry that is neither a regular file nor a directory
OtherEntry(name) == [name |-> name, kind |-> "other", size |-> 0]
\* a position of the listing at which next_entry().await returns Err
ErrorEntry == [name |-> <<"?">>, kind |-> "error", size |-> 0]
\* a directory whose read_dir fails, with the entries it holds all the same
Unreadable(entries) == [state |-> "unreadable", entries |-> entries]

HasEntry(tree, dir, name) ==
    /\ tree[dir].state = "ok"
    /\ \E i \in 1..Len(tree[dir].entries) : tree[dir].entries[i].name = name

EntryAt(tree, path) ==
    LET dir == SubSeq(path, 1, Len(path) - 1)
        es == tree[dir].entries
    IN  es[CHOOSE i \in 1..Len(es) : es[i].name = path[Len(path)]]

\* Path::exists and Path::is_file of a path below Root
path_exists(tree, path) ==
    HasEntry(tree, SubSeq(path, 1, Len(path) - 1), path[Len(path)])
path_is_file(tree, path) ==
    path_exists(tree, path) /\ EntryAt(tree, path).kind = "file"

\* fs::create_dir_all("./downloads")
create_dir_all(tree) ==
    IF tree[Root].state # "missing" THEN tree ELSE [tree EXCEPT ![Root] = Dir(<<>>)]

\* the download agent leaves file `name` of `size` bytes in `dir`
\* (the directory is created when missing; an existing file is kept)
agent_writes(tree, dir, name, size) ==
    LET made == IF tree[dir].state # "missing" THEN tree
                ELSE [tree EXCEPT ![dir] = Dir(<<>>),
                                  ![Root] = Dir(Append(tree[Root].entries, DirEntry(SubDir)))]
    IN  IF HasEntry(made, dir, name) THEN made
        ELSE [made EXCEPT ![dir] = Dir(Append(made[dir].entries, FileEntry(name, size)))]

RemoveAt(s, i) == SubSeq(s, 1, i - 1) \o SubSeq(s, i + 1, Len(s))

\* -------------------------------------------------- find_downloaded_file
\* read_dir failing gives None; the entries are visited in listing order
\* until next_entry fails or the listing ends, a matching regular file is
\* returned, a directory is searched in turn.
RECURSIVE find_downloaded_file(_, _, _), scan_entries(_, _, _, _)
\* a bug: read_dir failing is reported as an error value
find_downloaded_file_propagates(tree, base_dir, filename) ==
    IF tree[base_dir].state = "unreadable" THEN [tag |-> "Err"]
    ELSE IF tree[base_dir].state # "ok" THEN None
    ELSE scan_entries(tree, base_dir, filename, 1)

find_downloaded_file(tree, base_dir, filename) ==
    IF tree[base_dir].state # "ok" THEN None
    ELSE scan_entries(tree, base_dir, filename, 1)

\* a bug: the result of the first directory searched is returned as it is
scan_entries_first_dir(tree, base_dir, filename, i) ==
    IF i > Len(tree[base_dir].entries) THEN None
    ELSE LET entry == tree[base_dir].entries[i]
             path == Append(base_dir, entry.name)
         IN  IF entry.kind = "error" THEN None
             ELSE IF entry.kind = "file" /\ entry.name = filename THEN Some(path)
             ELSE IF entry.kind = "dir" /\ path \in DOMAIN tree
                  THEN find_downloaded_file(tree, path, filename)
                  ELSE scan_entries(tree, base_dir, filename, i + 1)

scan_entries(tree, base_dir, filename, i) ==
    IF i > Len(tree[base_dir].entries) THEN None
    ELSE LET entry == tree[base_dir].entries[i]
             path == Append(base_dir, entry.name)
         IN  IF entry.kind = "error" THEN None
             ELSE IF entry.kind = "file" /\ entry.name = filename THEN Some(path)
             ELSE IF entry.kind = "dir" /\ path \in DOMAIN tree
                  THEN LET found == find_downloaded_file(tree, path, filename)
                       IN  IF found.tag = "Some" THEN found
                           ELSE scan_entries(tree, base_dir, filename, i + 1)
                  ELSE scan_entries(tree, base_dir, filename, i + 1)

\* -------------------------------------------------------- cached proxies
\* Requests to /search and /movie/:imdb_id, the answers of the upstream API
\* and the JSON values built from them.
Proxies == {"p1", "p2"}
UpstreamData == {"v1", "v2"}
LongType == <<"movie", ":page=", "1", ":type=", "movie">>
LongQuery == <<"x", ":page=", "1", ":type=", "movie">>
SearchInput(q, page, type) ==
    [handler |-> "search_movies", q |-> q, page |-> page, type |-> type, imdb_id |-> <<>>]
DetailInput(imdb_id) ==
    [handler |-> "movie_detail", q |-> <<>>, page |-> 0, type |-> <<>>, imdb_id |-> imdb_id]
ProxyInputs ==
    {SearchInput(<<" ">>, 1, <<"movie">>), SearchInput(<<"x">>, 1, <<"movie">>),
     SearchInput(<<"x">>, 1, LongType), SearchInput(LongQuery, 1, <<"movie">>),
     DetailInput(<<" ">>), DetailInput(<<"tt1">>)}

\* str::trim().is_empty()
trim_is_empty(s) == \A i \in 1..Len(s) : s[i] = " "

\* the String the handler formats as its cache key
cache_key(in) ==
    IF in.handler = "search_movies"
    THEN <<"search:q=">> \o in.q \o <<":page=">> \o to_string(in.page)
            \o <<":type=">> \o in.type
    ELSE <<"detail:">> \o in.imdb_id
CacheKeys == {cache_key(in) : in \in ProxyInputs}

\* what send() and the body give: no response at all, a status, a body that
\* is JSON or not, its "Response" field and the rest of its content
NoResponse ==
    [sent |-> FALSE, status |-> 0, json |-> FALSE, response |-> "absent", data |-> "v1"]
UpstreamResponses ==
    {NoResponse,
     [NoResponse EXCEPT !.sent = TRUE, !.status = 500],
     [NoResponse EXCEPT !.sent = TRUE, !.status = 200]}
    \cup {[sent |-> TRUE, status |-> 200, json |-> TRUE, response |-> r, data |-> d] :
             r \in {"True", "False", "absent"}, d \in UpstreamData}

\* resp.json::<OmdbSearchResp>() needs the String field "Response";
\* resp.json::<serde_json::Value>() takes any JSON
decodes(handler, resp) ==
    resp.json /\ (handler = "search_movies" => resp.response # "absent")

\* a bug: the "Response" field of the body is not looked at
reported_ok_unchecked(handler, resp) == TRUE

\* `body.ok != "True"` rejects in search_movies,
\* `body.get("Response") == Some("False")` rejects in movie_detail
reported_ok(handler, resp) ==
    IF handler = "search_movies" THEN resp.response = "True"
    ELSE resp.response # "False"

\* the JSON value the handler caches and returns
built_value(rec) ==
    IF rec.handler = "search_movies"
    THEN [query |-> rec.q, page |-> rec.page, type |-> rec.type,
          response |-> rec.resp.response, data |-> rec.resp.data]
    ELSE [query |-> <<>>, page |-> 0, type |-> <<>>,
          response |-> rec.resp.response, data |-> rec.resp.data]

IdleProxy ==
    [pc |-> "idle", handler |-> "none", q |-> <<>>, page |-> 0, type |-> <<>>,
     imdb_id |-> <<>>, key |-> <<>>, resp |-> NoResponse, upstream_calls |-> 0,
     hit |-> FALSE, inserted |-> FALSE, status |-> 0, result |-> None]
EmptyCache == [k \in CacheKeys |-> None]

\* ------------------------------------------------------------------ state
VARIABLES
    fs,               \* the tree under "./downloads"
    req,              \* per request: position in download_and_stream and its locals
    agent,            \* per request: the aria2c process it spawned
    overflow_checks,  \* build profile: TRUE panics on u64 overflow, FALSE wraps
    cache,            \* AppState.cache: key -> cached JSON value, if any
    proxy             \* per proxy request: position in its handler and its locals

vars == <<fs, req, agent, overflow_checks, cache, proxy>>

NoHeaders == [content_range |-> None, content_length |-> None,
              accept_ranges |-> None, content_type |-> None]

IdleReq == [pc |-> "idle", filename |-> <<>>, magnet |-> <<>>, range |-> None,
            fs_ops |-> 0, lookups |-> 0, first_lookup |-> "none", invocations |-> 0,
            filepath |-> None, opens |-> 0, handle |-> FALSE, inode |-> 0,
            file_size |-> 0, start |-> 0, end |-> 0, chunk_size |-> 0,
            limit |-> None, pos |-> 0, taken |-> 0,
            status |-> 0, headers |-> NoHeaders, body |-> <<>>]

NoAgent == [state |-> "none", dir |-> Root, out |-> <<>>, magnet_link |-> <<>>]

\* trees the storage root can be in when the server starts
MissingRoot == [d \in DirPaths |-> NoDir]
EmptyRoot == [MissingRoot EXCEPT ![Root] = Dir(<<>>)]
Trees(dirs, names, sizes) ==
    {MissingRoot, EmptyRoot}
    \cup {agent_writes(EmptyRoot, d, n, s) : d \in dirs, n \in names, s \in sizes}

\* the trees the locator is checked on: Root, a directory in it and one in
\* that, each readable or not, listed in every order
DeepPath == <<SubDir, SubDir>>
LocDirPaths == {Root, SubPath, DeepPath}
Listings(entries, n) ==
    {s \in UNION {[1..k -> entries] : k \in 0..n} :
        \A i, j \in 1..Len(s) : i # j => s[i].name # s[j].name}
DirStates(entries, n) ==
    {Dir(s) : s \in Listings(entries, n)} \cup {Unreadable(s) : s \in Listings(entries, n)}
HasDir(dir) == \E i \in 1..Len(dir.entries) : dir.entries[i] = DirEntry(SubDir)
LocTrees ==
    LET a == <<"a">>
        roots == DirStates({FileEntry(a, 1), FileEntry(<<"b">>, 1), OtherEntry(a),
                            DirEntry(SubDir), ErrorEntry}, MaxEntries)
        subs == DirStates({FileEntry(a, 1), DirEntry(SubDir), ErrorEntry}, MaxEntries - 1)
        deeps == DirStates({FileEntry(a, 1)}, MaxEntries - 2)
    IN  {[d \in LocDirPaths |-> NoDir]}
        \cup {[d \in LocDirPaths |->
                  IF d = Root THEN r ELSE IF d = SubPath THEN s ELSE u] :
                r \in roots, s \in subs \cup {NoDir}, u \in deeps \cup {NoDir}}

\* a directory exists exactly when its parent lists it
WellFormed(tree) ==
    /\ (tree[SubPath].state # "missing") = HasDir(tree[Root])
    /\ (tree[DeepPath].state # "missing") = HasDir(tree[SubPath])

TypeOK ==
    /\ overflow_checks \in BOOLEAN
    /\ \A r \in Requests :
        /\ req[r].pc \in {"idle", "create_dir", "locate", "spawn", "await_agent",
                          "relocate", "exists", "open", "metadata", "range", "seek",
                          "streaming", "done", "error", "panicked",
                          "disconnected", "stream_error"}
        /\ agent[r].state \in {"none", "running", "exit_ok", "exit_fail", "spawn_err"}

\* the inputs of the concurrent specification
OrchSizes == {1}
OrchMagnets == {<<>>, <<"h">>}
OrchRanges == {None, Some(<<"bytes=", "0", "-", "0">>)}

Init ==
    /\ fs \in Trees(DirPaths, {<<"b">>}, OrchSizes)
    /\ req = [r \in Requests |-> IdleReq]
    /\ agent = [r \in Requests |-> NoAgent]
    /\ overflow_checks \in BOOLEAN
    /\ cache = EmptyCache
    /\ proxy = [p \in Proxies |-> IdleProxy]

\* --------------------------------------------------------------- helpers
SetReq(r, rec) == req' = [req EXCEPT ![r] = rec]

\* a bug: an error return that keeps the file open
Fail_leaks(rec, code) == [rec EXCEPT !.pc = "error", !.status = code]

\* `return Err((code, msg))`: the handler ends, its locals (the File) drop
Fail(rec, code) == [rec EXCEPT !.pc = "error", !.status = code, !.handle = FALSE]

\* Range header values a client may send
strip_bytes_prefix(value) ==
    IF value # <<>> /\ Head(value) = "bytes=" THEN Some(Tail(value)) ELSE None

AllRanges ==
    {None, Some(<<"0", "-", "0">>)} \cup {Some(<<"bytes=">> \o t) : t \in RangeStrs}

\* ------------------------------------------------- download_and_stream
\* axum extracts Query<TorrentParams> and the headers and calls the handler
Receive(r, filenames, magnets, ranges) ==
    /\ req[r].pc = "idle"
    /\ \E f \in filenames, m \in magnets, h \in ranges :
          SetReq(r, [req[r] EXCEPT !.pc = "create_dir", !.filename = f,
                                   !.magnet = m, !.range = h])
    /\ UNCHANGED <<fs, agent, overflow_checks, cache, proxy>>

\* tokio::fs::create_dir_all(&download_dir).await.unwrap()
CreateDir(r) ==
    /\ req[r].pc = "create_dir"
    /\ fs' = create_dir_all(fs)
    /\ SetReq(r, [req[r] EXCEPT !.pc = "locate", !.fs_ops = @ + 1])
    /\ UNCHANGED <<agent, overflow_checks, cache, proxy>>

\* a bug: the agent is run whether or not the file was found
Locate_always_acquires(r) ==
    /\ req[r].pc = "locate"
    /\ LET found == find_downloaded_file(fs, Root, req[r].filename)
       IN  SetReq(r, [req[r] EXCEPT
                !.pc = "spawn",
                !.filepath = found,
                !.first_lookup = IF found.tag = "Some" THEN "found" ELSE "notfound",
                !.lookups = @ + 1,
                !.fs_ops = @ + 1])
    /\ UNCHANGED <<fs, agent, overflow_checks, cache, proxy>>

\* a bug: the lookup waits while any request's download is in flight
Locate_serialized(r) ==
    /\ req[r].pc = "locate"
    /\ \A o \in Requests : req[o].pc # "await_agent"
    /\ LET found == find_downloaded_file(fs, Root, req[r].filename)
       IN  SetReq(r, [req[r] EXCEPT
                !.pc = IF found.tag = "Some" THEN "exists" ELSE "spawn",
                !.filepath = found,
                !.first_lookup = IF found.tag = "Some" THEN "found" ELSE "notfound",
                !.lookups = @ + 1,
                !.fs_ops = @ + 1])
    /\ UNCHANGED <<fs, agent, overflow_checks, cache, proxy>>

\* let filepath = match find_downloaded_file(..).await { Some(p) => p, None => .. }
Locate(r) ==
    /\ req[r].pc = "locate"
    /\ LET found == find_downloaded_file(fs, Root, req[r].filename)
       IN  SetReq(r, [req[r] EXCEPT
                !.pc = IF found.tag = "Some" THEN "exists" ELSE "spawn",
                !.filepath = found,
                !.first_lookup = IF found.tag = "Some" THEN "found" ELSE "notfound",
                !.lookups = @ + 1,
                !.fs_ops = @ + 1])
    /\ UNCHANGED <<fs, agent, overflow_checks, cache, proxy>>

\* a bug: the prefix is put in front of every identifier
magnet_link_always_wraps(magnet) == <<"magnet:?", "xt=urn:btih:">> \o magnet

\* the magnet link handed to aria2c
magnet_link(magnet) ==
    IF magnet # <<>> /\ Head(magnet) = "magnet:?" THEN magnet
    ELSE <<"magnet:?", "xt=urn:btih:">> \o magnet

\* a bug-free variant the code does not have: one acquisition per filename
Acquire_exclusive(r) ==
    /\ req[r].pc = "spawn"
    /\ \A o \in Requests :
          ~(agent[o].state = "running" /\ agent[o].out = req[r].filename)
    /\ \E spawned \in BOOLEAN :
          agent' = [agent EXCEPT ![r] =
                       [state |-> IF spawned THEN "running" ELSE "spawn_err",
                        dir |-> Root, out |-> req[r].filename,
                        magnet_link |-> magnet_link(req[r].magnet)]]
    /\ SetReq(r, [req[r] EXCEPT !.pc = "await_agent", !.invocations = @ + 1])
    /\ UNCHANGED <<fs, overflow_checks, cache, proxy>>

\* Command::new("aria2c")...status(): the process is spawned, or the spawn fails
Acquire(r) ==
    /\ req[r].pc = "spawn"
    /\ \E spawned \in BOOLEAN :
          agent' = [agent EXCEPT ![r] =
                       [state |-> IF spawned THEN "running" ELSE "spawn_err",
                        dir |-> Root, out |-> req[r].filename,
                        magnet_link |-> magnet_link(req[r].magnet)]]
    /\ SetReq(r, [req[r] EXCEPT !.pc = "await_agent", !.invocations = @ + 1])
    /\ UNCHANGED <<fs, overflow_checks, cache, proxy>>

\* a bug: the exit status is not checked before the second lookup
AwaitAgent_unchecked(r) ==
    /\ req[r].pc = "await_agent"
    /\ agent[r].state \in {"exit_ok", "exit_fail", "spawn_err"}
    /\ SetReq(r, [req[r] EXCEPT !.pc = "relocate"])
    /\ UNCHANGED <<fs, agent, overflow_checks, cache, proxy>>

\* .status().await resolves; `if !matches!(status, Ok(s) if s.success())`
AwaitAgent(r) ==
    /\ req[r].pc = "await_agent"
    /\ agent[r].state \in {"exit_ok", "exit_fail", "spawn_err"}
    /\ SetReq(r, IF agent[r].state = "exit_ok"
                 THEN [req[r] EXCEPT !.pc = "relocate"]
                 ELSE Fail(req[r], 500))
    /\ UNCHANGED <<fs, agent, overflow_checks, cache, proxy>>

\* a bug: a file still missing after the download starts another download
Relocate_retries(r) ==
    /\ req[r].pc = "relocate"
    /\ LET found == find_downloaded_file(fs, Root, req[r].filename)
           seen == [req[r] EXCEPT !.filepath = found, !.lookups = @ + 1,
                                  !.fs_ops = @ + 1]
       IN  SetReq(r, IF found.tag = "Some" THEN [seen EXCEPT !.pc = "exists"]
                     ELSE [seen EXCEPT !.pc = "spawn"])
    /\ UNCHANGED <<fs, agent, overflow_checks, cache, proxy>>

\* a bug: a file still missing after the download is reported as 404
Relocate_not_found(r) ==
    /\ req[r].pc = "relocate"
    /\ LET found == find_downloaded_file(fs, Root, req[r].filename)
           seen == [req[r] EXCEPT !.filepath = found, !.lookups = @ + 1,
                                  !.fs_ops = @ + 1]
       IN  SetReq(r, IF found.tag = "Some" THEN [seen EXCEPT !.pc = "exists"]
                     ELSE Fail(seen, 404))
    /\ UNCHANGED <<fs, agent, overflow_checks, cache, proxy>>

\* find_downloaded_file(..).await.ok_or_else(|| (INTERNAL_SERVER_ERROR, ..))?
Relocate(r) ==
    /\ req[r].pc = "relocate"
    /\ LET found == find_downloaded_file(fs, Root, req[r].filename)
           seen == [req[r] EXCEPT !.filepath = found, !.lookups = @ + 1,
                                  !.fs_ops = @ + 1]
       IN  SetReq(r, IF found.tag = "Some" THEN [seen EXCEPT !.pc = "exists"]
                     ELSE Fail(seen, 500))
    /\ UNCHANGED <<fs, agent, overflow_checks, cache, proxy>>

\* if !filepath.exists() { return Err((NOT_FOUND, ..)) }
CheckExists(r) ==
    /\ req[r].pc = "exists"
    /\ LET seen == [req[r] EXCEPT !.fs_ops = @ + 1]
       IN  SetReq(r, IF path_exists(fs, req[r].filepath.val)
                     THEN [seen EXCEPT !.pc = "open"]
                     ELSE Fail(seen, 404))
    /\ UNCHANGED <<fs, agent, overflow_checks, cache, proxy>>

\* File::open(&filepath).await: the handle, or 500
Open(r) ==
    /\ req[r].pc = "open"
    /\ \E io_ok \in BOOLEAN :
          LET seen == [req[r] EXCEPT !.fs_ops = @ + 1]
          IN  SetReq(r, IF io_ok /\ path_is_file(fs, req[r].filepath.val)
                        THEN [seen EXCEPT !.pc = "metadata", !.handle = TRUE,
                                          !.opens = @ + 1,
                                          !.inode = EntryAt(fs, req[r].filepath.val).size]
                        ELSE Fail(seen, 500))
    /\ UNCHANGED <<fs, agent, overflow_checks, cache, proxy>>

\* file.metadata().await: file_size = meta.len(), or 500
Metadata(r) ==
    /\ req[r].pc = "metadata"
    /\ \E io_ok \in BOOLEAN :
          SetReq(r, IF io_ok THEN [req[r] EXCEPT !.pc = "range", !.file_size = req[r].inode]
                    ELSE Fail(req[r], 500))
    /\ UNCHANGED <<fs, agent, overflow_checks, cache, proxy>>

\* a panic unwinds the handler: its locals drop, no response is produced
Panicked(rec) == [rec EXCEPT !.pc = "panicked", !.handle = FALSE]

content_range(start, end, file_size) ==
    <<"bytes ">> \o to_string(start) \o <<"-">> \o to_string(end)
                 \o <<"/">> \o to_string(file_size)

\* a bug: Content-Length is one short of the window
partial_headers_short(start, end, chunk_size, file_size) ==
    [content_range |-> Some(content_range(start, end, file_size)),
     accept_ranges |-> Some(<<"bytes">>),
     content_length |-> Some(to_string(end - start)),
     content_type |-> Some(<<"video/mp4">>)]

\* the headers of the 206 response
partial_headers(start, end, chunk_size, file_size) ==
    [content_range |-> Some(content_range(start, end, file_size)),
     accept_ranges |-> Some(<<"bytes">>),
     content_length |-> Some(to_string(chunk_size)),
     content_type |-> Some(<<"video/mp4">>)]

\* a bug: the full response also carries a Content-Range header
full_headers_with_range(file_size) ==
    [content_range |-> Some(content_range(0, file_size, file_size)),
     content_length |-> Some(to_string(file_size)),
     accept_ranges |-> Some(<<"bytes">>),
     content_type |-> Some(<<"video/mp4">>)]

\* the headers of the 200 response
full_headers(file_size) ==
    [content_range |-> None,
     content_length |-> Some(to_string(file_size)),
     accept_ranges |-> Some(<<"bytes">>),
     content_type |-> Some(<<"video/mp4">>)]

\* a bug: the fallback window is the first byte instead of the whole file
requested_window_first_byte(parsed, whole) ==
    IF parsed.tag = "Some" THEN parsed.val ELSE <<0, 0>>

\* parse_range(..).unwrap_or((0, file_size - 1))
requested_window(parsed, whole) ==
    IF parsed.tag = "Some" THEN parsed.val ELSE <<0, whole.val>>

\* headers.get(RANGE)..strip_prefix("bytes="); with a range:
\*   let (start, end) = parse_range(range, file_size).unwrap_or((0, file_size - 1));
\*   let chunk_size = (end - start) + 1;
\* without one: the 200 response over ReaderStream::new(file)
Window(r) ==
    /\ req[r].pc = "range"
    /\ LET value == req[r].range
           range == IF value.tag = "Some" THEN strip_bytes_prefix(value.val) ELSE None
           size == req[r].file_size
           parsed == parse_range(range.val, size, overflow_checks)
           whole == u64_sub(size, 1, overflow_checks)
           start == requested_window(parsed, whole)[1]
           end == requested_window(parsed, whole)[2]
           span == u64_sub(end, start, overflow_checks)
           chunk_size == u64_add(span.val, 1, overflow_checks)
       IN  SetReq(r,
             IF range.tag = "None"
             THEN [req[r] EXCEPT
                     !.pc = "streaming", !.status = 200, !.limit = None,
                     !.headers = full_headers(size)]
             ELSE IF parsed.tag = "Panic" \/ whole.tag = "Panic" THEN Panicked(req[r])
             ELSE IF span.tag = "Panic" \/ chunk_size.tag = "Panic" THEN Panicked(req[r])
             ELSE [req[r] EXCEPT !.pc = "seek", !.start = start, !.end = end,
                                 !.chunk_size = chunk_size.val])
    /\ UNCHANGED <<fs, agent, overflow_checks, cache, proxy>>

\* file.seek(SeekFrom::Start(start)).await, then the 206 response over
\* ReaderStream::new(file).take(chunk_size as usize)
Seek(r) ==
    /\ req[r].pc = "seek"
    /\ \E io_ok \in BOOLEAN :
          SetReq(r,
            IF ~io_ok THEN Fail(req[r], 500)
            ELSE [req[r] EXCEPT
                    !.pc = "streaming", !.status = 206, !.pos = req[r].start,
                    !.limit = Some(as_usize(req[r].chunk_size)),
                    !.headers = partial_headers(req[r].start, req[r].end,
                                                req[r].chunk_size, req[r].file_size)])
    /\ UNCHANGED <<fs, agent, overflow_checks, cache, proxy>>

\* Take::poll_next: the stream is over once `limit` items were yielded
take_exhausted(rec) == rec.limit.tag = "Some" /\ rec.taken >= rec.limit.val

\* the bytes one poll of ReaderStream may yield: one read of up to ReadCap
\* bytes at the cursor, at least one byte unless at end of file
chunk_lengths(rec) == 1..Min(ReadCap, rec.inode - rec.pos)

\* the body is polled: ReaderStream yields one chunk, Take counts one item
StreamChunk(r) ==
    /\ req[r].pc = "streaming"
    /\ ~take_exhausted(req[r])
    /\ \E n \in chunk_lengths(req[r]) :
          SetReq(r, [req[r] EXCEPT
                !.body = @ \o [i \in 1..n |-> req[r].pos + i - 1],
                !.pos = @ + n,
                !.taken = @ + 1])
    /\ UNCHANGED <<fs, agent, overflow_checks, cache, proxy>>

\* the stream ends (Take exhausted, or the read hit end of file): the body
\* is complete and the File inside the stream is dropped
StreamEnd(r) ==
    /\ req[r].pc = "streaming"
    /\ take_exhausted(req[r]) \/ req[r].pos >= req[r].inode
    /\ SetReq(r, [req[r] EXCEPT !.pc = "done", !.handle = FALSE])
    /\ UNCHANGED <<fs, agent, overflow_checks, cache, proxy>>

\* a read of the file fails: ReaderStream yields the error and drops the File,
\* the body ends early
StreamError(r) ==
    /\ req[r].pc = "streaming"
    /\ ~take_exhausted(req[r])
    /\ SetReq(r, [req[r] EXCEPT !.pc = "stream_error", !.handle = FALSE])
    /\ UNCHANGED <<fs, agent, overflow_checks, cache, proxy>>

\* the client goes away: the transport drops the body, and with it the stream
\* and the File inside it
ClientDisconnect(r) ==
    /\ req[r].pc = "streaming"
    /\ SetReq(r, [req[r] EXCEPT !.pc = "disconnected", !.handle = FALSE])
    /\ UNCHANGED <<fs, agent, overflow_checks, cache, proxy>>

\* ----------------------------------------------------------- environment
\* the names aria2c may give its output: --out, or the torrent's own name
agent_outputs(out) == IF out = <<>> THEN RealNames ELSE {out}

\* a running aria2c exits, with success or not, having left a file or not
AgentExit(r, dirs, sizes) ==
    /\ agent[r].state = "running"
    /\ \E ok \in BOOLEAN :
          agent' = [agent EXCEPT ![r].state = IF ok THEN "exit_ok" ELSE "exit_fail"]
    /\ \/ fs' = fs
       \/ \E d \in dirs, n \in agent_outputs(agent[r].out), s \in sizes :
             fs' = agent_writes(fs, d, n, s)
    /\ UNCHANGED <<req, overflow_checks, cache, proxy>>

\* a file under the storage root is removed from outside the handler
Unlink ==
    /\ \E d \in DirPaths :
          /\ fs[d].state = "ok"
          /\ \E i \in 1..Len(fs[d].entries) :
                /\ fs[d].entries[i].kind = "file"
                /\ fs' = [fs EXCEPT ![d].entries = RemoveAt(@, i)]
    /\ UNCHANGED <<req, agent, overflow_checks, cache, proxy>>

\* ------------------------------------------------------- specifications
\* the range-streaming half of the handler, from the located path on
Respond(r) ==
    \/ CheckExists(r) \/ Open(r) \/ Metadata(r) \/ Window(r) \/ Seek(r)
    \/ StreamChunk(r) \/ StreamEnd(r) \/ StreamError(r) \/ ClientDisconnect(r)

Handler(r) ==
    \/ CreateDir(r) \/ Locate(r) \/ Acquire(r) \/ AwaitAgent(r) \/ Relocate(r)
    \/ Respond(r)

\* concurrent requests, the download agents and the filesystem around them
Next ==
    \/ \E r \in Requests : Receive(r, Filenames, OrchMagnets, OrchRanges)
    \/ \E r \in Requests : Handler(r)
    \/ \E r \in Requests : AgentExit(r, DirPaths, OrchSizes)
    \/ Unlink

Spec == Init /\ [][Next]_vars

\* one request for a file that is on disk, with any Range header
InitStream ==
    /\ fs \in Trees(DirPaths, {<<"a">>}, 0..MaxFileSize) \ {MissingRoot, EmptyRoot}
    /\ req = [r \in Requests |-> IdleReq]
    /\ agent = [r \in Requests |-> NoAgent]
    /\ overflow_checks \in BOOLEAN
    /\ cache = EmptyCache
    /\ proxy = [p \in Proxies |-> IdleProxy]

NextStream ==
    \/ Receive("r1", {<<"a">>}, {<<"h">>}, AllRanges)
    \/ CreateDir("r1")
    \/ Locate("r1")
    \/ Respond("r1")

SpecStream == InitStream /\ [][NextStream]_vars

\* ---------------------------------------------- search_movies, movie_detail
SetProxy(p, rec) == proxy' = [proxy EXCEPT ![p] = rec]
stream_vars == <<fs, req, agent, overflow_checks>>

\* `return Err(ApiError::..)`: 400 for BadRequest, 502 for Upstream
ProxyFail(rec, code) == [rec EXCEPT !.pc = "error", !.status = code]

\* axum extracts the query or the path parameter and calls the handler
ProxyReceive(p) ==
    /\ proxy[p].pc = "idle"
    /\ \E in \in ProxyInputs :
          SetProxy(p, [proxy[p] EXCEPT !.pc = "get", !.handler = in.handler,
                          !.q = in.q, !.page = in.page, !.type = in.type,
                          !.imdb_id = in.imdb_id])
    /\ UNCHANGED <<cache, stream_vars>>

\* the empty-parameter check, the key, and state.cache.get(&key).await
CacheGet(p) ==
    /\ proxy[p].pc = "get"
    /\ LET rec == proxy[p]
           param == IF rec.handler = "search_movies" THEN rec.q ELSE rec.imdb_id
           key == cache_key(rec)
       IN  SetProxy(p, IF trim_is_empty(param) THEN ProxyFail(rec, 400)
                       ELSE IF cache[key].tag = "Some"
                       THEN [rec EXCEPT !.pc = "done", !.key = key, !.hit = TRUE,
                                        !.status = 200, !.result = cache[key]]
                       ELSE [rec EXCEPT !.pc = "send", !.key = key])
    /\ UNCHANGED <<cache, stream_vars>>

\* state.http.get(&url).send().await and the status check
UpstreamSend(p) ==
    /\ proxy[p].pc = "send"
    /\ \E resp \in UpstreamResponses :
          LET rec == [proxy[p] EXCEPT !.resp = resp, !.upstream_calls = @ + 1]
          IN  SetProxy(p, IF resp.sent /\ resp.status \in 200..299
                          THEN [rec EXCEPT !.pc = "json"]
                          ELSE ProxyFail(rec, 502))
    /\ UNCHANGED <<cache, stream_vars>>

\* resp.json().await and the check of the body's "Response" field
UpstreamJson(p) ==
    /\ proxy[p].pc = "json"
    /\ LET rec == proxy[p]
       IN  SetProxy(p, IF decodes(rec.handler, rec.resp)
                            /\ reported_ok(rec.handler, rec.resp)
                       THEN [rec EXCEPT !.pc = "insert"]
                       ELSE ProxyFail(rec, 502))
    /\ UNCHANGED <<cache, stream_vars>>

\* state.cache.insert(key, json.clone()).await; Ok(Json(json))
CacheInsert(p) ==
    /\ proxy[p].pc = "insert"
    /\ LET json == Some(built_value(proxy[p]))
       IN  /\ cache' = [cache EXCEPT ![proxy[p].key] = json]
           /\ SetProxy(p, [proxy[p] EXCEPT !.pc = "done", !.inserted = TRUE,
                                           !.status = 200, !.result = json])
    /\ UNCHANGED stream_vars

\* an entry leaves the cache: its 60 s time to live ran out, or it was
\* evicted for capacity
CacheEvict ==
    /\ \E k \in CacheKeys :
          /\ cache[k].tag = "Some"
          /\ cache' = [cache EXCEPT ![k] = None]
    /\ UNCHANGED <<proxy, stream_vars>>

\* the server just started, with concurrent requests to the two proxies
InitCache ==
    /\ fs = MissingRoot
    /\ req = [r \in Requests |-> IdleReq]
    /\ agent = [r \in Requests |-> NoAgent]
    /\ overflow_checks \in BOOLEAN
    /\ cache = EmptyCache
    /\ proxy = [p \in Proxies |-> IdleProxy]

NextCache ==
    \/ \E p \in Proxies : ProxyReceive(p)
    \/ \E p \in Proxies : CacheGet(p)
    \/ \E p \in Proxies : UpstreamSend(p)
    \/ \E p \in Proxies : UpstreamJson(p)
    \/ \E p \in Proxies : CacheInsert(p)
    \/ CacheEvict

SpecCache == InitCache /\ [][NextCache]_vars

\* one request through the whole handler, with every form of identifier
NextAcquire ==
    \/ Receive("r1", Filenames, Magnets, OrchRanges)
    \/ Handler("r1")
    \/ AgentExit("r1", DirPaths, OrchSizes)
    \/ Unlink

SpecAcquire == Init /\ [][NextAcquire]_vars

\* the lookup alone, over every tree of LocTrees and every filename
InitLocate ==
    /\ fs \in {t \in LocTrees : WellFormed(t)}
    /\ req = [r \in Requests |-> IdleReq]
    /\ agent = [r \in Requests |-> NoAgent]
    /\ overflow_checks \in BOOLEAN
    /\ cache = EmptyCache
    /\ proxy = [p \in Proxies |-> IdleProxy]

NextLocate ==
    \/ Receive("r1", Filenames, {<<"h">>}, {None})
    \/ CreateDir("r1")
    \/ Locate("r1")

SpecLocate == InitLocate /\ [][NextLocate]_vars

\* ------------------------------------------------------------- properties
\* the response was handed to the transport / its body is complete
Responded(r) == req[r].pc \in {"streaming", "done", "stream_error", "disconnected"}
Completed(r) == req[r].pc = "done"

\* the bytes of a file and of its window [start, end]
FileBytes(size) == [i \in 1..size |-> i - 1]
Slice(start, end) == [i \in 1..(end - start + 1) |-> start + i - 1]

\* the header `Range: bytes=start-end` and `Range: bytes=start-`
RangeHeader(start, end) ==
    Some(<<"bytes=">> \o to_string(start) \o <<"-">> \o to_string(end))
OpenRangeHeader(start) == Some(<<"bytes=">> \o to_string(start) \o <<"-">>)

\* request r asked for the valid window [s, e] of the file it was served
ValidRange(r, s, e) ==
    /\ s <= e /\ e < req[r].file_size
    /\ \/ req[r].range = RangeHeader(s, e)
       \/ req[r].range = OpenRangeHeader(s) /\ e = req[r].file_size - 1

\* request r sent `Range: bytes=<spec>` with a spec parse_range rejects
InvalidRange(r) ==
    /\ req[r].range.tag = "Some"
    /\ strip_bytes_prefix(req[r].range.val).tag = "Some"
    /\ parse_range(strip_bytes_prefix(req[r].range.val).val,
                   req[r].file_size, overflow_checks).tag = "None"

\* C1: for a valid range bytes=s-e of a file of size >= 1 the streamed body
\* is exactly the bytes s..e of the file: never more than e-s+1 bytes are
\* emitted and the complete body equals the window.
C1_BodyIsWindow ==
    \A r \in Requests : \A s \in 0..MaxFileSize, e \in 0..MaxFileSize :
        (Responded(r) /\ req[r].file_size >= 1 /\ req[r].range = RangeHeader(s, e)
            /\ s <= e /\ e < req[r].file_size)
        => /\ Len(req[r].body) <= e - s + 1
           /\ Completed(r) => req[r].body = Slice(s, e)

C3_PartialContentHeaders ==
    \A r \in Requests : \A s \in 0..MaxFileSize, e \in 0..MaxFileSize :
        (ValidRange(r, s, e) /\ req[r].pc \notin {"range", "seek"})
        => \/ req[r].pc = "error" /\ req[r].status = 500
           \/ /\ Responded(r)
              /\ req[r].status = 206
              /\ req[r].headers.content_range =
                    Some(<<"bytes ">> \o to_string(s) \o <<"-">> \o to_string(e)
                         \o <<"/">> \o to_string(req[r].file_size))
              /\ req[r].headers.content_length = Some(to_string(e - s + 1))
              /\ req[r].headers.accept_ranges = Some(<<"bytes">>)

\* an open-ended range in the middle of the largest file was answered
C3_Witness ==
    \E r \in Requests :
        /\ Completed(r) /\ req[r].status = 206
        /\ req[r].range = OpenRangeHeader(1)
        /\ req[r].file_size = MaxFileSize
        /\ req[r].headers.content_length = Some(to_string(MaxFileSize - 1))

\* request r ended: Terminal(Success), Terminal(Error), or a panic
Terminal(r) ==
    req[r].pc \in {"done", "error", "panicked", "stream_error", "disconnected"}

\* C4: a request whose first lookup misses invokes the agent exactly once,
\* before any lookup of the request succeeds; no request invokes it twice.
C4_OneAcquisition ==
    \A r \in Requests :
        /\ req[r].invocations <= 1
        /\ (req[r].first_lookup = "notfound" /\ req[r].pc # "spawn")
              => req[r].invocations = 1 /\ agent[r].state # "none"
        /\ (req[r].first_lookup = "notfound" /\ req[r].filepath.tag = "Some")
              => /\ req[r].invocations = 1
                 /\ agent[r].state = "exit_ok"
                 /\ req[r].lookups = 2

\* a request missed the file, ran the agent once, found the file, streamed it
C4_Witness ==
    \E r \in Requests :
        /\ req[r].first_lookup = "notfound" /\ req[r].invocations = 1
        /\ req[r].filepath.tag = "Some" /\ Completed(r)

\* C5: a request with an empty filename or magnet ends with 400, decided
\* before any filesystem activity and before the agent is spawned.
C5_EmptyParamIs400 ==
    \A r \in Requests :
        (req[r].pc # "idle" /\ (req[r].filename = <<>> \/ req[r].magnet = <<>>))
        => /\ req[r].fs_ops = 0
           /\ req[r].invocations = 0
           /\ agent[r].state = "none"
           /\ Terminal(r) => req[r].status = 400

\* the agent of request r exited with success and r's lookup after it missed
MissingAfterDownload(r) ==
    /\ agent[r].state = "exit_ok"
    /\ req[r].pc \notin {"await_agent", "relocate"}
    /\ req[r].filepath = None

\* C6 (as claimed): file absent, agent succeeds, second lookup misses: 404
\* and no streaming.
C6_MissingAfterDownloadIs404 ==
    \A r \in Requests :
        MissingAfterDownload(r)
        => /\ req[r].pc = "error" /\ req[r].status = 404
           /\ req[r].opens = 0 /\ req[r].body = <<>>

\* C6 (amended): file absent, agent succeeds, second lookup misses: the
\* request ends with 500 Internal Server Error and never reaches Streaming.
C6_MissingAfterDownloadIs500 ==
    \A r \in Requests :
        MissingAfterDownload(r)
        => /\ req[r].pc = "error" /\ req[r].status = 500
           /\ req[r].lookups = 2
           /\ req[r].opens = 0 /\ req[r].body = <<>>

C6_Witness ==
    \E r \in Requests :
        /\ MissingAfterDownload(r) /\ req[r].lookups = 2 /\ req[r].status = 500

\* C7: acquisitions for one filename are not synchronized: a request at the
\* spawn point can always spawn, whatever agents are in flight, and two
\* requests that both missed the same filename each get an agent of their
\* own on the same target.
C7_AcquisitionsUnsynchronized ==
    \A r \in Requests :
        /\ req[r].pc = "spawn" => ENABLED Acquire(r)
        /\ \A o \in Requests \ {r} :
              (/\ req[r].first_lookup = "notfound" /\ req[r].pc # "spawn"
               /\ req[o].first_lookup = "notfound" /\ req[o].pc # "spawn"
               /\ req[r].filename = req[o].filename)
              => /\ agent[r].state # "none" /\ agent[o].state # "none"
                 /\ agent[r].dir = agent[o].dir /\ agent[r].out = agent[o].out

\* two acquisitions of the same target are in flight at once
C7_Witness ==
    \E r \in Requests, o \in Requests :
        /\ r # o
        /\ agent[r].state = "running" /\ agent[o].state = "running"
        /\ agent[r].dir = agent[o].dir /\ agent[r].out = agent[o].out
        /\ req[r].pc = "await_agent" /\ req[o].pc = "await_agent"

\* C8: a request whose first lookup finds the file never invokes the agent.
C8_FoundNeverAcquires ==
    \A r \in Requests :
        req[r].first_lookup = "found"
        => /\ req[r].invocations = 0
           /\ agent[r].state = "none"
           /\ req[r].lookups = 1

\* a file was downloaded by one request and a repeat request streamed it
\* without an agent
C8_Witness ==
    \E r \in Requests, o \in Requests :
        /\ r # o /\ req[r].filename = <<"a">> /\ req[o].filename = <<"a">>
        /\ agent[r].state = "exit_ok" /\ Completed(r)
        /\ req[o].first_lookup = "found" /\ Completed(o)
        /\ req[o].invocations = 0

\* C9: when the agent exits nonzero or fails to spawn the request ends with
\* 500 at once: no second invocation, no second lookup, no open, no body.
C9_FailedAcquisitionIs500 ==
    \A r \in Requests :
        agent[r].state \in {"exit_fail", "spawn_err"}
        => /\ req[r].pc \in {"await_agent", "error"}
           /\ req[r].pc = "error" => req[r].status = 500
           /\ req[r].invocations = 1
           /\ req[r].lookups = 1
           /\ req[r].opens = 0 /\ ~req[r].handle /\ req[r].body = <<>>

C9_Witness ==
    \E r \in Requests, o \in Requests :
        /\ agent[r].state = "exit_fail" /\ req[r].pc = "error" /\ req[r].status = 500
        /\ agent[o].state = "spawn_err" /\ req[o].pc = "error" /\ req[o].status = 500

\* request r waits for an agent that has not exited
Suspended(r) == req[r].pc = "await_agent" /\ agent[r].state = "running"

\* C10: while a request is suspended in Acquiring, every other request
\* that is inside the handler and not waiting for its own running agent has
\* an enabled step, and an idle one can be received.
C10_SuspendedBlocksNobody ==
    \A r \in Requests : \A o \in Requests \ {r} :
        (Suspended(r) /\ ~Terminal(o) /\ ~Suspended(o))
        => IF req[o].pc = "idle"
           THEN ENABLED Receive(o, Filenames, OrchMagnets, OrchRanges)
           ELSE ENABLED Handler(o)

\* a request for another, present file completed while one is suspended
C10_Witness ==
    \E r \in Requests, o \in Requests :
        /\ Suspended(r) /\ req[o].filename # req[r].filename
        /\ req[o].first_lookup = "found" /\ Completed(o)
        /\ req[o].status \in {200, 206}

\* C11: a request without a Range header for a located file is answered
\* with 200, Content-Length = file size, Accept-Ranges: bytes, no
\* Content-Range, and a body that is the whole file, first byte to last.
C11_FullResponse ==
    \A r \in Requests :
        (req[r].range = None /\ Responded(r))
        => /\ req[r].status = 200
           /\ req[r].headers.content_length = Some(to_string(req[r].file_size))
           /\ req[r].headers.accept_ranges = Some(<<"bytes">>)
           /\ req[r].headers.content_range = None
           /\ Len(req[r].body) <= req[r].file_size
           /\ Completed(r) => req[r].body = FileBytes(req[r].file_size)

\* the largest file was streamed whole, in more than one chunk
C11_Witness ==
    \E r \in Requests :
        /\ req[r].range = None /\ Completed(r) /\ req[r].status = 200
        /\ req[r].file_size = MaxFileSize /\ req[r].taken > 1
        /\ req[r].body = FileBytes(MaxFileSize)

\* C12: for every file size, 0 included, and every Range header the handler
\* never overflows (no panic) and the window it computes satisfies
\* start <= end < size, with Content-Length at most the file size.
C12_WindowInBounds ==
    \A r \in Requests :
        /\ req[r].pc # "panicked"
        /\ (req[r].pc = "seek" \/ req[r].status = 206)
              => /\ req[r].start <= req[r].end
                 /\ req[r].end < req[r].file_size
                 /\ req[r].chunk_size <= req[r].file_size

\* C13: every request ends in exactly one terminal state and gets there
\* moving forward: a request that was received is at a terminal state with
\* its outcome (a completed or abandoned response, or an error status), or
\* it has a next step, or it waits for a download agent that is still to exit.
C13_ReachesTerminal ==
    \A r \in Requests :
        req[r].pc # "idle"
        => \/ req[r].pc \in {"done", "error", "stream_error", "disconnected"}
           \/ ENABLED Handler(r)
           \/ req[r].pc = "await_agent" /\ agent[r].state = "running"

\* C18: a request opens the file at most once, and the handle is held only
\* between the open and the end of the response: no terminal request holds
\* it, whether the stream completed, the client went away, or the metadata
\* query, the seek or a read failed.
C18_HandleReleased ==
    \A r \in Requests :
        /\ req[r].opens <= 1
        /\ Terminal(r) => ~req[r].handle
        /\ req[r].handle => /\ req[r].opens = 1
                            /\ req[r].pc \in {"metadata", "range", "seek", "streaming"}

\* the client went away in the middle of a body, after the one open
C18_Witness ==
    \E r \in Requests :
        /\ req[r].pc = "disconnected" /\ req[r].opens = 1 /\ ~req[r].handle
        /\ req[r].body # <<>> /\ Len(req[r].body) < req[r].file_size

\* ---------------------------------------------------------------- locator
\* the regular files named `filename` anywhere in the tree
FilesNamed(tree, filename) ==
    {Append(d, filename) : d \in
        {d \in DOMAIN tree :
            /\ tree[d].state # "missing"
            /\ \E i \in 1..Len(tree[d].entries) :
                  tree[d].entries[i] = FileEntry(filename, tree[d].entries[i].size)}}

\* entry i of directory d can be read: the directory can, and no read of an
\* entry up to i fails
Listed(tree, d, i) ==
    /\ tree[d].state = "ok"
    /\ i \in 1..Len(tree[d].entries)
    /\ \A j \in 1..i : tree[d].entries[j].kind # "error"

\* every directory on the way from Root to d is a readable entry of its parent
Readable(tree, d) ==
    \A k \in 1..Len(d) :
        LET parent == SubSeq(d, 1, k - 1)
        IN  \E i \in 1..Len(tree[parent].entries) :
                /\ Listed(tree, parent, i)
                /\ tree[parent].entries[i] = DirEntry(d[k])

\* the regular files named `filename` in the part of the tree that can be read
ReadableFilesNamed(tree, filename) ==
    {Append(d, filename) : d \in
        {d \in DOMAIN tree :
            /\ Readable(tree, d)
            /\ \E i \in 1..Len(tree[d].entries) :
                  /\ Listed(tree, d, i)
                  /\ tree[d].entries[i] = FileEntry(filename, tree[d].entries[i].size)}}

Looked(r) == req[r].lookups >= 1

\* C14 as stated: the lookup returns a path only of a regular file of that
\* name under Root, and returns not-found only if no regular file of that
\* name exists anywhere in the tree.
C14_SoundAndComplete ==
    \A r \in Requests :
        Looked(r)
        => /\ req[r].filepath.tag = "Some"
                => req[r].filepath.val \in FilesNamed(fs, req[r].filename)
           /\ req[r].filepath.tag = "None"
                => FilesNamed(fs, req[r].filename) = {}

\* C14, amended: the lookup returns a path only of a regular file of that
\* name under Root, and returns not-found only if no regular file of that
\* name exists in the part of the tree it can read, at any depth and in any
\* sibling order.
C14_SoundAndCompleteReadable ==
    \A r \in Requests :
        Looked(r)
        => /\ req[r].filepath.tag = "Some"
                => /\ req[r].filepath.val \in ReadableFilesNamed(fs, req[r].filename)
                   /\ path_is_file(fs, req[r].filepath.val)
           /\ req[r].filepath.tag = "None"
                => ReadableFilesNamed(fs, req[r].filename) = {}

\* the file was found two directories down, past a first entry of Root that
\* is no directory
C14_Witness ==
    \E r \in Requests :
        /\ Looked(r)
        /\ req[r].filepath = Some(Append(DeepPath, req[r].filename))
        /\ fs[Root].entries[1].kind # "dir"

\* the tree as the lookup perceives it: an unreadable directory is empty, a
\* listing ends where reading an entry fails
UpToError(entries) ==
    LET errs == {i \in 1..Len(entries) : entries[i].kind = "error"}
    IN  IF errs = {} THEN entries
        ELSE SubSeq(entries, 1, (CHOOSE i \in errs : \A j \in errs : i <= j) - 1)
Swallowed(tree) ==
    [d \in DOMAIN tree |->
        IF tree[d].state = "unreadable" THEN Dir(<<>>)
        ELSE [tree[d] EXCEPT !.entries = UpToError(@)]]

\* C15: the lookup never yields an error: its result is a path or not-found,
\* the same as on the tree in which every unreadable directory is empty and
\* every listing ends at its first failed entry; with an unreadable Root the
\* result is not-found and the handler goes on to the acquisition.
C15_ErrorsSwallowed ==
    \A r \in Requests :
        Looked(r)
        => /\ req[r].filepath.tag \in {"Some", "None"}
           /\ req[r].filepath
                 = find_downloaded_file(Swallowed(fs), Root, req[r].filename)
           /\ fs[Root].state = "unreadable"
                 => req[r].filepath = None /\ req[r].pc = "spawn"

\* the file is in an unreadable directory and the handler goes to acquire it
C15_Witness ==
    \E r \in Requests :
        /\ Looked(r) /\ req[r].pc = "spawn" /\ req[r].filepath = None
        /\ \E p \in FilesNamed(fs, req[r].filename) :
              fs[SubSeq(p, 1, Len(p) - 1)].state = "unreadable"

\* ------------------------------------------------------- range grammar
\* the range grammar of the specification: one split at the first '-', a
\* left side of digits, a right side that is empty or of digits
FirstDash(s) ==
    LET dashes == {i \in 1..Len(s) : s[i] = "-"}
    IN  IF dashes = {} THEN 0 ELSE CHOOSE i \in dashes : \A j \in dashes : i <= j
AllDigits(s) == s # <<>> /\ \A i \in 1..Len(s) : IsDigit(s[i])
SplitOnceRange(s, file_size) ==
    LET k == FirstDash(s)
        left == IF k = 0 THEN s ELSE SubSeq(s, 1, k - 1)
        right == IF k = 0 THEN <<>> ELSE SubSeq(s, k + 1, Len(s))
    IN  IF AllDigits(left) /\ (right = <<>> \/ AllDigits(right))
        THEN LET start == parse_u64(left).val
                 end == IF right = <<>> THEN file_size - 1 ELSE parse_u64(right).val
             IN  IF start <= end /\ end < file_size THEN Some(<<start, end>>) ELSE None
        ELSE None

\* C16: the value after `bytes=` is split once at its first '-'; it is a
\* range only when the left side is an integer and the right side is empty
\* or wholly an integer, so anything after a second '-' or a ',' makes it no
\* valid range, and every such value gets the window of an invalid range.
C16_SplitOnce ==
    \A r \in Requests :
        (req[r].file_size >= 1 /\ (req[r].pc = "seek" \/ req[r].status = 206))
        => LET range_str == strip_bytes_prefix(req[r].range.val).val
               claimed == SplitOnceRange(range_str, req[r].file_size)
           IN  <<req[r].start, req[r].end>>
                  = IF claimed.tag = "Some" THEN claimed.val
                    ELSE <<0, req[r].file_size - 1>>

\* C17: the link handed to the download agent is the normalized identifier:
\* the identifier itself when it begins with `magnet:?`, else the identifier
\* behind the prefix `magnet:?xt=urn:btih:`; it always begins with
\* `magnet:?`, and normalizing it again changes nothing.
C17_MagnetNormalized ==
    \A r \in Requests :
        agent[r].state # "none"
        => LET link == agent[r].magnet_link
               given == req[r].magnet
               is_uri == given # <<>> /\ Head(given) = "magnet:?"
           IN  /\ link # <<>> /\ Head(link) = "magnet:?"
               /\ is_uri => link = given
               /\ ~is_uri => link = <<"magnet:?", "xt=urn:btih:">> \o given
               /\ magnet_link(link) = link

\* an agent was started with an identifier that already was a magnet URI
C17_Witness ==
    \E r \in Requests :
        /\ agent[r].state = "running"
        /\ req[r].magnet = <<"magnet:?", "xt=urn:btih:", "h">>
        /\ agent[r].magnet_link = req[r].magnet

\* ------------------------------------------------------------------ cache
\* the upstream failures: no response, a status outside 2xx, a body that
\* reports an error
UpstreamFailure(resp) ==
    ~resp.sent \/ resp.status \notin 200..299 \/ resp.response = "False"

\* C19: the cache holds a value for a key only if a request for that key
\* received a successful upstream response and built that value from it; a
\* request whose upstream call failed inserts nothing; a request that hits the
\* cache returns the cached value and never contacts upstream.
C19_CacheHoldsFetched ==
    /\ \A k \in CacheKeys :
          cache[k].tag = "Some"
          => \E p \in Proxies :
                /\ proxy[p].key = k /\ proxy[p].inserted
                /\ proxy[p].upstream_calls = 1 /\ ~UpstreamFailure(proxy[p].resp)
                /\ cache[k] = proxy[p].result
                /\ cache[k].val.data = proxy[p].resp.data
    /\ \A p \in Proxies :
          /\ (proxy[p].upstream_calls > 0 /\ UpstreamFailure(proxy[p].resp))
                => /\ ~proxy[p].inserted /\ proxy[p].pc \in {"json", "error"}
                   /\ proxy[p].pc = "error" => proxy[p].status = 502
          /\ proxy[p].hit
                => /\ proxy[p].upstream_calls = 0 /\ ~proxy[p].inserted
                   /\ proxy[p].pc = "done" /\ proxy[p].status = 200
                   /\ \E o \in Proxies \ {p} :
                         /\ o # p /\ proxy[o].key = proxy[p].key /\ proxy[o].inserted
                         /\ proxy[p].result = proxy[o].result

\* one request was served from the cache what another had fetched, and a
\* third outcome, a failed fetch, is not what the cache holds
C19_Witness ==
    \E p \in Proxies : \E o \in Proxies \ {p} :
        /\ proxy[p].hit /\ proxy[p].upstream_calls = 0
        /\ proxy[o].inserted /\ proxy[o].upstream_calls = 1
        /\ proxy[p].result = proxy[o].result
        /\ cache[proxy[p].key] = proxy[o].result

====
